---- MODULE Spec2Model ----
(***************************************************************************)
(* Longitudinal Data Merger (src/main.py): the Streamlit script that       *)
(* loads wave files, validates the primary key, removes duplicate keys,    *)
(* optionally fills missing cells and merges the tables in wide or long    *)
(* format.  One run of the script is one step of the model.                *)
(*                                                                         *)
(* A cell is <<"num", n>>, <<"str", s>> or NaN.  A table (DataFrame) is a  *)
(* record [cols, dtype, rows]: the ordered column names, the dtype of each *)
(* column and the rows in order, each row a function from column name to   *)
(* cell.                                                                   *)
(***************************************************************************)
EXTENDS Integers, Sequences, FiniteSets, TLC

\* ------------------------------------------------------------------ bounds

\* Largest number of files in the uploader.
MaxFiles == 2

\* Largest wave number typed into a wave number_input (the widget has no maximum).
MaxWave == 2

\* ------------------------------------------------------------------ cells

NaN == <<"nan", 0>>

Num(n) == <<"num", n>>

Str(s) == <<"str", s>>

\* Python's None where a table is expected.
None == [none |-> TRUE]

\* Python's None where a text is expected.
NoText == "None"

Range(s) == {s[i] : i \in DOMAIN s}

\* The elements of s at the positions of I, in the order of s.
RECURSIVE Pick(_, _, _)
Pick(s, I, k) ==
    IF k > Len(s) THEN <<>>
    ELSE (IF k \in I THEN <<s[k]>> ELSE <<>>) \o Pick(s, I, k + 1)

RECURSIVE Flatten(_)
Flatten(ss) == IF ss = <<>> THEN <<>> ELSE Head(ss) \o Flatten(Tail(ss))

\* The distinct elements of s in the order of their first occurrence.
Uniq(s) == Pick(s, {i \in DOMAIN s : \A j \in 1..(i - 1) : s[j] # s[i]}, 1)

Column(df, c) == [i \in DOMAIN df.rows |-> df.rows[i][c]]

ColSet(df) == Range(df.cols)

\* The dtype pandas gives a column of dtype dt once it holds the cells vals:
\* an integer column that receives a missing cell becomes float64.
Upcast(dt, vals) == IF dt = "int64" /\ NaN \in vals THEN "float64" ELSE dt

\* ------------------------------------------------------------------ pandas

\* DataFrame.duplicated(subset=[pk]): the rows whose key already occurred in an
\* earlier row (missing keys count as equal to each other).
Duplicated(df, pk) ==
    {i \in DOMAIN df.rows : \E j \in 1..(i - 1) : df.rows[j][pk] = df.rows[i][pk]}

\* drop_duplicates with keep="last": what remove_duplicates must not do.
DropDuplicates_KeepLast(df, pk) ==
    [df EXCEPT !.rows = Pick(df.rows,
        {i \in DOMAIN df.rows : \A j \in DOMAIN df.rows : j > i => df.rows[j][pk] # df.rows[i][pk]},
        1)]

\* DataFrame.drop_duplicates(subset=[pk]), keep="first".
DropDuplicates(df, pk) ==
    [df EXCEPT !.rows = Pick(df.rows, DOMAIN df.rows \ Duplicated(df, pk), 1)]

\* DataFrame.fillna(value) with a text value: every missing cell becomes the
\* text, and a numeric column that held a missing cell becomes object.
FillNa(df, value) ==
    [df EXCEPT
       !.rows = [i \in DOMAIN df.rows |->
                   [c \in ColSet(df) |->
                      IF df.rows[i][c] = NaN THEN Str(value) ELSE df.rows[i][c]]],
       !.dtype = [c \in ColSet(df) |->
                    IF NaN \in Range(Column(df, c)) THEN "object" ELSE df.dtype[c]]]

IsError(r) == "error" \in DOMAIN r

TextLike(df, c) == \E i \in DOMAIN df.rows : df.rows[i][c][1] = "str"

\* pandas refuses to merge a text key with a numeric key (ValueError), unless
\* one side has no rows.
KeyTypeClash(left, right, on) ==
    /\ Len(left.rows) > 0
    /\ Len(right.rows) > 0
    /\ \/ left.dtype[on] = "object" /\ right.dtype[on] # "object" /\ TextLike(left, on)
       \/ right.dtype[on] = "object" /\ left.dtype[on] # "object" /\ TextLike(right, on)

\* pd.merge(left, right, on=on, how=how).  Columns named alike on both sides
\* get the suffixes _x and _y.  Rows: inner and left follow the left rows,
\* right follows the right rows, outer lists the left rows and then the right
\* rows without a partner.  Equal keys pair up, missing keys with each other.
PdMerge(left, right, on, how) ==
    LET overlap == (ColSet(left) \cap ColSet(right)) \ {on}
        lname(c) == IF c \in overlap THEN c \o "_x" ELSE c
        rname(c) == IF c \in overlap THEN c \o "_y" ELSE c
        rcols == SelectSeq(right.cols, LAMBDA c : c # on)
        cols == [i \in DOMAIN left.cols |-> lname(left.cols[i])]
                  \o [i \in DOMAIN rcols |-> rname(rcols[i])]
        lnames == {lname(c) : c \in ColSet(left)}
        rnames == {rname(c) : c \in Range(rcols)}
        lsrc(n) == CHOOSE c \in ColSet(left) : lname(c) = n
        rsrc(n) == CHOOSE c \in Range(rcols) : rname(c) = n
        both(i, j) == [n \in lnames |-> left.rows[i][lsrc(n)]]
                        @@ [n \in rnames |-> right.rows[j][rsrc(n)]]
        lonly(i) == [n \in lnames |-> left.rows[i][lsrc(n)]]
                      @@ [n \in rnames |-> NaN]
        ronly(j) == [n \in lnames |-> IF n = on THEN right.rows[j][on] ELSE NaN]
                      @@ [n \in rnames |-> right.rows[j][rsrc(n)]]
        rmatch(i) == {j \in DOMAIN right.rows : right.rows[j][on] = left.rows[i][on]}
        lmatch(j) == {i \in DOMAIN left.rows : left.rows[i][on] = right.rows[j][on]}
        idx(n) == [k \in 1..n |-> k]
        fromLeft(keep) ==
            Flatten([i \in DOMAIN left.rows |->
                IF rmatch(i) = {}
                THEN (IF keep THEN <<lonly(i)>> ELSE <<>>)
                ELSE [k \in DOMAIN Pick(idx(Len(right.rows)), rmatch(i), 1) |->
                        both(i, Pick(idx(Len(right.rows)), rmatch(i), 1)[k])]])
        fromRight ==
            Flatten([j \in DOMAIN right.rows |->
                IF lmatch(j) = {}
                THEN <<ronly(j)>>
                ELSE [k \in DOMAIN Pick(idx(Len(left.rows)), lmatch(j), 1) |->
                        both(Pick(idx(Len(left.rows)), lmatch(j), 1)[k], j)]])
        unmatched ==
            Flatten([j \in DOMAIN right.rows |->
                IF lmatch(j) = {} THEN <<ronly(j)>> ELSE <<>>])
        rows == CASE how = "inner" -> fromLeft(FALSE)
                  [] how = "left"  -> fromLeft(TRUE)
                  [] how = "right" -> fromRight
                  [] how = "outer" -> fromLeft(TRUE) \o unmatched
        vals(n) == {rows[i][n] : i \in DOMAIN rows}
        dtype == [n \in lnames \cup rnames |->
                    IF n = on
                    THEN (IF left.dtype[on] = right.dtype[on]
                          THEN left.dtype[on] ELSE "object")
                    ELSE IF n \in lnames THEN Upcast(left.dtype[lsrc(n)], vals(n))
                    ELSE Upcast(right.dtype[rsrc(n)], vals(n))]
    IN  IF on \notin ColSet(left) \/ on \notin ColSet(right)
        THEN [error |-> "KeyError"]
        ELSE IF KeyTypeClash(left, right, on)
        THEN [error |-> "ValueError"]
        ELSE IF Cardinality(Range(cols)) # Len(cols)
        THEN [error |-> "MergeError"]
        ELSE [cols |-> cols, dtype |-> dtype, rows |-> rows]

\* pd.concat(dfs, ignore_index=True): the rows of every table in turn, over the
\* union of the columns in order of first appearance, absent cells missing.
PdConcat(dfs) ==
    LET cols == Uniq(Flatten([i \in DOMAIN dfs |-> dfs[i].cols]))
        wide(df, r) == [c \in Range(cols) |-> IF c \in ColSet(df) THEN r[c] ELSE NaN]
        rows == Flatten([i \in DOMAIN dfs |->
                    [k \in DOMAIN dfs[i].rows |-> wide(dfs[i], dfs[i].rows[k])]])
        dts(c) == {dfs[i].dtype[c] : i \in {k \in DOMAIN dfs : c \in ColSet(dfs[k])}}
        dtype == [c \in Range(cols) |->
                    IF Cardinality(dts(c)) = 1
                    THEN Upcast(CHOOSE d \in dts(c) : TRUE, {rows[i][c] : i \in DOMAIN rows})
                    ELSE "object"]
    IN  [cols |-> cols, dtype |-> dtype, rows |-> rows]

\* ------------------------------------------------------------------ engines

\* load_file: None when reading the file raises; otherwise the parsed table,
\* cut to the rows with Status == 0 and Finished == 1 when both columns exist.
load_file(file) ==
    IF ~file.readable THEN None
    ELSE LET df == file.table
         IN  IF "Status" \in ColSet(df) /\ "Finished" \in ColSet(df)
             THEN [df EXCEPT !.rows =
                     SelectSeq(df.rows, LAMBDA r : r["Status"] = Num(0) /\ r["Finished"] = Num(1))]
             ELSE df

\* remove_duplicates: per table, the first row of every primary key.
remove_duplicates(data_frames, primary_key) ==
    [i \in DOMAIN data_frames |->
        LET df == data_frames[i]
        IN  IF primary_key # "" /\ primary_key \in ColSet(df)
            THEN (IF Duplicated(df, primary_key) # {}
                  THEN DropDuplicates(df, primary_key)
                  ELSE df)
            ELSE df]

\* The suffix of table i in a wide merge.
WaveSuffix(wave_assignments, i) == "_w" \o ToString(wave_assignments[i])

\* The Wave cell of table i in a long merge.
WaveLabel(wave_assignments, i) == "w" \o ToString(wave_assignments[i])

\* df.rename: every column but the primary key gets the suffix.
RenameColumns(df, primary_key, suffix) ==
    LET new(c) == IF c # primary_key THEN c \o suffix ELSE c
        src(n) == CHOOSE c \in ColSet(df) : new(c) = n
        names == {new(c) : c \in ColSet(df)}
    IN  [cols |-> [k \in DOMAIN df.cols |-> new(df.cols[k])],
         dtype |-> [n \in names |-> df.dtype[src(n)]],
         rows |-> [r \in DOMAIN df.rows |-> [n \in names |-> df.rows[r][src(n)]]]]

\* A fold that hands pd.merge the incoming table as its left side.
RECURSIVE ReduceMerge_Swapped(_, _, _, _)
ReduceMerge_Swapped(acc, rest, primary_key, join_type) ==
    IF rest = <<>> \/ IsError(acc) THEN acc
    ELSE ReduceMerge_Swapped(PdMerge(Head(rest), acc, primary_key, join_type),
                             Tail(rest), primary_key, join_type)

\* functools.reduce of pd.merge over the renamed tables, left to right; the
\* first exception ends the fold.
RECURSIVE ReduceMerge(_, _, _, _)
ReduceMerge(acc, rest, primary_key, join_type) ==
    IF rest = <<>> \/ IsError(acc) THEN acc
    ELSE ReduceMerge(PdMerge(acc, Head(rest), primary_key, join_type),
                     Tail(rest), primary_key, join_type)

\* merge_datasets_wide: the merged table, or the exception raised.
merge_datasets_wide(data_frames, primary_key, join_type, wave_assignments) ==
    IF \E i \in DOMAIN data_frames : i \notin DOMAIN wave_assignments
    THEN [error |-> "KeyError"]
    ELSE LET renamed_dfs == [i \in DOMAIN data_frames |->
                 RenameColumns(data_frames[i], primary_key, WaveSuffix(wave_assignments, i))]
         IN  ReduceMerge(Head(renamed_dfs), Tail(renamed_dfs), primary_key, join_type)

\* df['Wave'] = label: the column is set on the table itself, replacing a
\* column of that name or else added as the last column.
SetWave(df, label) ==
    [cols |-> IF "Wave" \in ColSet(df) THEN df.cols ELSE Append(df.cols, "Wave"),
     dtype |-> [c \in ColSet(df) \cup {"Wave"} |->
                  IF c = "Wave" THEN "object" ELSE df.dtype[c]],
     rows |-> [r \in DOMAIN df.rows |->
                 [c \in ColSet(df) \cup {"Wave"} |->
                    IF c = "Wave" THEN Str(label) ELSE df.rows[r][c]]]]

\* set(df[primary_key]) of every table, intersected.  Python compares the
\* members by identity and then by ==, and a missing key (NaN) is not == to
\* itself: a float64 column hands out a new NaN object per cell, so its NaN is
\* in no intersection; the NaN cells of object columns are common only when
\* they are one and the same object (nan_shared).
CommonIds(data_frames, primary_key, nan_shared) ==
    LET keys(i) == Range(Column(data_frames[i], primary_key))
        everywhere == {v \in keys(1) : \A i \in DOMAIN data_frames : v \in keys(i)}
        nan_common == /\ nan_shared
                      /\ \A i \in DOMAIN data_frames :
                            data_frames[i].dtype[primary_key] = "object"
    IN  IF nan_common THEN everywhere ELSE everywhere \ {NaN}

\* merge_datasets_long: frames are the caller's tables after the call (the
\* Wave column is set on them), merged the filtered stack, count len(common_ids).
merge_datasets_long(data_frames, primary_key, wave_assignments, nan_shared) ==
    IF \E i \in DOMAIN data_frames : i \notin DOMAIN wave_assignments
    THEN [error |-> "KeyError"]
    ELSE LET tagged == [i \in DOMAIN data_frames |->
                 SetWave(data_frames[i], WaveLabel(wave_assignments, i))]
             concatenated_df == PdConcat(tagged)
             common_ids == CommonIds(tagged, primary_key, nan_shared)
             merged_df == [concatenated_df EXCEPT !.rows =
                 SelectSeq(concatenated_df.rows, LAMBDA r : r[primary_key] \in common_ids)]
         IN  [frames |-> tagged, merged |-> merged_df, count |-> Cardinality(common_ids)]

\* ------------------------------------------------------------------ inputs

Float64Table(key, col, vals) ==
    [cols |-> <<"id", col>>,
     dtype |-> [c \in {"id", col} |-> "float64"],
     rows |-> [i \in DOMAIN key |-> [c \in {"id", col} |-> IF c = "id" THEN key[i] ELSE vals[i]]]]

ObjectTable(key, col, vals) ==
    [cols |-> <<"id", col>>,
     dtype |-> [c \in {"id", col} |-> IF c = "id" THEN "object" ELSE "float64"],
     rows |-> [i \in DOMAIN key |-> [c \in {"id", col} |-> IF c = "id" THEN key[i] ELSE vals[i]]]]

\* The files a user may hold: numeric keys (clean, repeated, missing), text
\* keys, and a file that cannot be read.
Files ==
    { [name |-> "a.csv", readable |-> TRUE,
       table |-> Float64Table(<<Num(1), Num(2)>>, "x", <<Num(10), Num(20)>>)],
      [name |-> "b.csv", readable |-> TRUE,
       table |-> Float64Table(<<Num(1), Num(3)>>, "y", <<Num(100), Num(300)>>)],
      [name |-> "d.csv", readable |-> TRUE,
       table |-> Float64Table(<<Num(1), Num(1), Num(2)>>, "x", <<Num(10), Num(11), NaN>>)],
      [name |-> "n.sav", readable |-> TRUE,
       table |-> Float64Table(<<NaN, Num(1)>>, "x", <<Num(10), NaN>>)],
      [name |-> "s.csv", readable |-> TRUE,
       table |-> ObjectTable(<<Str("0"), NaN>>, "x", <<Num(10), Num(20)>>)],
      [name |-> "bad.xlsx", readable |-> FALSE, table |-> None] }

FileLists == UNION {[1..n -> Files] : n \in 1..MaxFiles}

WaveNumbers == 1..MaxWave

Wide == "Wide (Horizontal)"

Long == "Long (Vertical)"

JoinTypes == {"inner", "left", "right", "outer"}

\* ------------------------------------------------------------------ session

VARIABLES
    files,             \* the files the user holds
    wave_numbers,      \* the wave number the user types for each of them
    uploaded_files,    \* the file_uploader's content
    widgets,           \* the values of the sidebar's other widgets
    data_frames,       \* st.session_state['data_frames']
    file_names,        \* st.session_state['file_names']
    wave_assignments,  \* st.session_state['wave_assignments']
    merged_df,         \* st.session_state['merged_df']
    merge_type,        \* st.session_state['merge_type']
    file_index,        \* for each table of data_frames, the position of its file in the upload
    report,            \* what the last run of the script did and displayed
    call               \* a direct call of one function: its arguments and what it returned

vars == <<files, wave_numbers, uploaded_files, widgets, data_frames, file_names,
          wave_assignments, merged_df, merge_type, file_index, report, call>>

NoCall == [fn |-> "none"]

Indices(n) == [k \in 1..n |-> k]

\* The widgets of steps 5 and 6 as they first appear: wide, inner (index=0),
\* the fill box unticked.
MergeDefaults == [merge_type |-> Wide, join_type |-> "inner", fill_missing |-> FALSE]

\* The text of the fill text_input (value="0").
FillValue == "0"

\* What a run that stops before the merge button reports.
Quiet(stage, missing_pk, dedup) ==
    [stage |-> stage, missing_pk |-> missing_pk, dedup |-> dedup, engine |-> "none",
     engine_in |-> <<>>, expected_rows |-> 0, actual_rows |-> 0]

\* Lines 141-165: the wave numbers of the uploaded files, keyed by file
\* position, and the tables of the files that load.
ReadUploads(up, waves) ==
    LET ok == {i \in DOMAIN up : load_file(up[i]) # None}
    IN  [wave_assignments |-> [i \in DOMAIN up |-> waves[i]],
         data_frames |-> Pick([i \in DOMAIN up |-> load_file(up[i])], ok, 1),
         file_names |-> Pick([i \in DOMAIN up |-> up[i].name], ok, 1),
         file_index |-> Pick(Indices(Len(up)), ok, 1)]

\* The positions counted from 0, as enumerate() hands them out.
MissingPk_ZeroBased(frames, primary_key) ==
    Pick([k \in 1..Len(frames) |-> k - 1],
         {i \in DOMAIN frames : primary_key \notin ColSet(frames[i])}, 1)

\* Lines 189-192: the 1-based positions of the tables without the primary key.
MissingPk(frames, primary_key) ==
    Pick(Indices(Len(frames)), {i \in DOMAIN frames : primary_key \notin ColSet(frames[i])}, 1)

\* Lines 197-198: the dtypes of the primary key across the tables.
PkTypes(frames, primary_key) == {frames[i].dtype[primary_key] : i \in DOMAIN frames}

\* Lines 225-231: the optional fill of missing cells.
FillMissing(frames, fill_missing, fill_value) ==
    IF fill_missing /\ fill_value # ""
    THEN [i \in DOMAIN frames |-> FillNa(frames[i], fill_value)]
    ELSE frames

\* A handler that drops the stored merged table when the engine raises.
MergeFailed_Clears(sess, frames, rep) ==
    [sess EXCEPT !.data_frames = frames,
                 !.merged_df = None,
                 !.merge_type = NoText,
                 !.report = [rep EXCEPT !.stage = "merge_error"]]

\* Lines 295-296: the exception of a merge engine is caught and displayed;
\* nothing is stored.
MergeFailed(sess, frames, rep) ==
    [sess EXCEPT !.data_frames = frames,
                 !.report = [rep EXCEPT !.stage = "merge_error"]]

\* Lines 235-296: the merge button's handler on the tables of the session.
\* st.cache_data answers a repeated call of merge_datasets_long from its cache
\* (cache_hit), and then the function body does not touch the tables.
MergeButton(sess, frames, primary_key, mtype, join_type, nan_shared, cache_hit) ==
    LET base == Quiet("validated", <<>>, TRUE)
    IN  IF mtype = Wide
        THEN LET merged == merge_datasets_wide(frames, primary_key, join_type,
                                               sess.wave_assignments)
                 rep == [base EXCEPT !.engine = "wide", !.engine_in = frames]
             IN  IF IsError(merged)
                 THEN MergeFailed(sess, frames, rep)
                 ELSE [sess EXCEPT !.data_frames = frames,
                                   !.merge_type = mtype,
                                   !.merged_df = merged,
                                   !.report = [rep EXCEPT !.stage = "merged",
                                                 !.actual_rows = Len(merged.rows)]]
        ELSE LET out == merge_datasets_long(frames, primary_key, sess.wave_assignments,
                                            nan_shared)
                 rep == [base EXCEPT !.engine = "long", !.engine_in = frames]
             IN  IF IsError(out)
                 THEN MergeFailed(sess, frames, rep)
                 ELSE LET expected_rows == out.count * Len(frames)
                          actual_rows == Len(out.merged.rows)
                      IN  [sess EXCEPT
                             !.data_frames = IF cache_hit THEN frames ELSE out.frames,
                             !.merge_type = mtype,
                             !.merged_df = out.merged,
                             !.report = [rep EXCEPT
                                 !.stage = IF actual_rows # expected_rows
                                           THEN "warning" ELSE "merged",
                                 !.expected_rows = expected_rows,
                                 !.actual_rows = actual_rows]]

\* Lines 187-296: primary key validation, duplicate removal, fill and merge.
\* A run that fails validation renders no widget of steps 5 to 7, and
\* Streamlit forgets the value of a widget that a run does not render.
Pipeline(sess, w, button, nan_shared, cache_hit) ==
    LET frames == sess.data_frames
        missing_pk == MissingPk(frames, w.primary_key)
        reset == [sess EXCEPT !.widgets = [primary_key |-> w.primary_key] @@ MergeDefaults]
    IN  IF missing_pk # <<>>
        THEN [reset EXCEPT !.report = Quiet("missing_pk", missing_pk, FALSE)]
        ELSE IF Cardinality(PkTypes(frames, w.primary_key)) > 1
        THEN [reset EXCEPT !.report = Quiet("inconsistent", <<>>, FALSE)]
        ELSE LET cleaned == remove_duplicates(frames, w.primary_key)
                 filled == FillMissing(cleaned, w.fill_missing, FillValue)
                 kept == [sess EXCEPT !.widgets = w]
             IN  IF ~button
                 THEN [kept EXCEPT !.data_frames = filled,
                                   !.report = Quiet("validated", <<>>, TRUE)]
                 ELSE MergeButton(kept, filled, w.primary_key, w.merge_type, w.join_type,
                                  nan_shared, cache_hit)

\* The session as the script finds it.
Session ==
    [data_frames |-> data_frames, file_names |-> file_names,
     wave_assignments |-> wave_assignments, merged_df |-> merged_df,
     merge_type |-> merge_type, file_index |-> file_index, report |-> report,
     widgets |-> widgets]

\* Lines 141-175: the session after the uploads are read.
AfterUpload(sess, up, waves) ==
    IF up # <<>>
    THEN LET read == ReadUploads(up, waves)
         IN  [sess EXCEPT !.wave_assignments = read.wave_assignments,
                          !.data_frames = read.data_frames,
                          !.file_names = read.file_names,
                          !.file_index = read.file_index]
    ELSE sess

\* Lines 181-185: the selectbox offers the first table's columns; a selection
\* that is no longer offered falls back to the first column.
SelectedKey(frames, w) ==
    IF w.primary_key \in ColSet(frames[1]) THEN w.primary_key ELSE frames[1].cols[1]

\* One run of the script with `up` in the uploader and the widget values w:
\* the session it leaves.
Script(up, w, button, nan_shared, cache_hit) ==
    LET sess == AfterUpload(Session, up, [i \in DOMAIN up |-> wave_numbers[i]])
    IN  IF sess.data_frames = <<>>
        THEN [sess EXCEPT !.report = Quiet("idle", <<>>, FALSE),
                          !.widgets = [primary_key |-> NoText] @@ MergeDefaults]
        ELSE Pipeline(sess, [w EXCEPT !.primary_key = SelectedKey(sess.data_frames, w)],
                      button, nan_shared, cache_hit)

Store(up, sess) ==
    /\ uploaded_files' = up
    /\ widgets' = sess.widgets
    /\ data_frames' = sess.data_frames
    /\ file_names' = sess.file_names
    /\ wave_assignments' = sess.wave_assignments
    /\ merged_df' = sess.merged_df
    /\ merge_type' = sess.merge_type
    /\ file_index' = sess.file_index
    /\ report' = sess.report
    /\ UNCHANGED <<files, wave_numbers, call>>

\* The last run rendered steps 5 to 7 (validation passed).
OptionsShown == report.stage \in {"validated", "merged", "warning", "merge_error"}

Init ==
    /\ files \in FileLists
    /\ wave_numbers \in [DOMAIN files -> WaveNumbers]
    /\ uploaded_files = <<>>
    /\ widgets = [primary_key |-> NoText] @@ MergeDefaults
    /\ data_frames = <<>>
    /\ file_names = <<>>
    /\ wave_assignments = <<>>
    /\ merged_df = None
    /\ merge_type = NoText
    /\ file_index = <<>>
    /\ report = Quiet("idle", <<>>, FALSE)
    /\ call = NoCall

\* The user puts the files into the uploader.
Upload ==
    /\ uploaded_files = <<>>
    /\ Store(files, Script(files, widgets, FALSE, FALSE, FALSE))

\* The user empties the uploader; the session keeps its tables.
ClearUploader ==
    /\ uploaded_files # <<>>
    /\ Store(<<>>, Script(<<>>, widgets, FALSE, FALSE, FALSE))

\* The user selects another primary key.
SelectPrimaryKey ==
    /\ data_frames # <<>>
    /\ \E c \in ColSet(data_frames[1]) \ {widgets.primary_key} :
          Store(uploaded_files,
                Script(uploaded_files, [widgets EXCEPT !.primary_key = c], FALSE, FALSE, FALSE))

\* The user selects the other merge type; the join type selectbox exists for
\* a wide merge only and reappears at its default.
SelectMergeType ==
    /\ OptionsShown
    /\ LET w == IF widgets.merge_type = Wide
                THEN [widgets EXCEPT !.merge_type = Long, !.join_type = NoText]
                ELSE [widgets EXCEPT !.merge_type = Wide, !.join_type = "inner"]
       IN  Store(uploaded_files, Script(uploaded_files, w, FALSE, FALSE, FALSE))

\* The user selects another join type.
SelectJoinType ==
    /\ OptionsShown
    /\ widgets.merge_type = Wide
    /\ \E j \in JoinTypes \ {widgets.join_type} :
          Store(uploaded_files,
                Script(uploaded_files, [widgets EXCEPT !.join_type = j], FALSE, FALSE, FALSE))

\* The user ticks or unticks the fill box.
ToggleFill ==
    /\ OptionsShown
    /\ Store(uploaded_files,
             Script(uploaded_files, [widgets EXCEPT !.fill_missing = ~@], FALSE, FALSE, FALSE))

\* The user presses the merge button: the script runs with the widgets as
\* they are.  Whether the NaN cells of the key columns are one object, and
\* whether the long merge is answered from the cache, is the environment's.
ClickMerge ==
    /\ OptionsShown
    /\ \E nan_shared, cache_hit \in BOOLEAN :
          /\ widgets.merge_type = Wide => ~nan_shared /\ ~cache_hit
          /\ Store(uploaded_files,
                   Script(uploaded_files, widgets, TRUE, nan_shared, cache_hit))

Next ==
    \/ Upload
    \/ ClearUploader
    \/ SelectPrimaryKey
    \/ SelectMergeType
    \/ SelectJoinType
    \/ ToggleFill
    \/ ClickMerge

Spec == Init /\ [][Next]_vars

\* ------------------------------------------------------------------ the functions called directly

\* Largest number of tables handed to a function.
MaxTables == 3

\* Largest number of rows of a handed table.
MaxRows == 2

\* Largest numeric key of a handed table.
MaxKey == 2

KeyCells == {Num(k) : k \in 1..MaxKey} \cup {NaN}

KeyColumns == UNION {[1..n -> KeyCells] : n \in 0..MaxRows}

\* A table with the key column id and one value column whose cells tell the
\* rows apart.
KeyedTable(key, col) ==
    Float64Table(key, col, [i \in DOMAIN key |-> Num(10 * i)])

Tables == {KeyedTable(key, col) : key \in KeyColumns, col \in {"x", "y"}}

TableLists(n) == UNION {[1..k -> Tables] : k \in 1..n}

\* The tables as line 202 leaves them.
CleanTables == {remove_duplicates(<<df>>, "id")[1] : df \in Tables}

CleanLists(n) == UNION {[1..k -> CleanTables] : k \in 1..n}

\* The primary keys tried on remove_duplicates: the key column, the value
\* column, a column no table has, and no selection.
KeyChoices == {"id", "x", "zip", ""}

Untouched ==
    UNCHANGED <<files, wave_numbers, uploaded_files, widgets, data_frames, file_names,
                wave_assignments, merged_df, merge_type, file_index, report>>

InitCalls ==
    /\ files = <<>>
    /\ wave_numbers = <<>>
    /\ uploaded_files = <<>>
    /\ widgets = [primary_key |-> NoText] @@ MergeDefaults
    /\ data_frames = <<>>
    /\ file_names = <<>>
    /\ wave_assignments = <<>>
    /\ merged_df = None
    /\ merge_type = NoText
    /\ file_index = <<>>
    /\ report = Quiet("idle", <<>>, FALSE)
    /\ call = NoCall

CallRemoveDuplicates ==
    /\ call = NoCall
    /\ \E frames \in TableLists(2), primary_key \in KeyChoices :
          call' = [fn |-> "remove_duplicates", data_frames |-> frames,
                   primary_key |-> primary_key,
                   result |-> remove_duplicates(frames, primary_key)]
    /\ Untouched

\* The wide merge on tables as line 202 leaves them.
CallMergeWide ==
    /\ call = NoCall
    /\ \E frames \in CleanLists(MaxTables), join_type \in JoinTypes :
       \E waves \in [DOMAIN frames -> WaveNumbers] :
          call' = [fn |-> "merge_datasets_wide", data_frames |-> frames,
                       primary_key |-> "id", join_type |-> join_type,
                       wave_assignments |-> waves,
                       result |-> merge_datasets_wide(frames, "id", join_type, waves)]
    /\ Untouched

NextCalls == CallRemoveDuplicates \/ CallMergeWide

SpecCalls == InitCalls /\ [][NextCalls]_vars

\* ------------------------------------------------------------------ claims

KeySet(df, pk) == {df.rows[i][pk] : i \in DOMAIN df.rows}

Merged == report.stage \in {"merged", "warning"}

\* The tables of the readable files of an upload, in upload order.
TablesOf(up) == Pick([i \in DOMAIN up |-> up[i].table], {i \in DOMAIN up : up[i].readable}, 1)

\* C1 (state part): the run reports a missing identifier exactly when some
\* loaded table lacks the selected column, it lists exactly the 1-based
\* positions of the tables lacking it, and it neither removes duplicates nor
\* calls a merge engine.
C1_Reported ==
    /\ (data_frames # <<>>
          /\ \E i \in DOMAIN data_frames : widgets.primary_key \notin ColSet(data_frames[i]))
       => report.stage = "missing_pk"
    /\ report.stage = "missing_pk" =>
          /\ Range(report.missing_pk) =
                {i \in DOMAIN data_frames : widgets.primary_key \notin ColSet(data_frames[i])}
          /\ Len(report.missing_pk) = Cardinality(Range(report.missing_pk))
          /\ report.missing_pk # <<>>
          /\ ~report.dedup
          /\ report.engine = "none"

\* C1 (step part): a run that reports a missing identifier stores no merged
\* table and leaves the loaded tables as they were loaded.
C1_NothingStored ==
    report'.stage = "missing_pk" =>
        /\ merged_df' = merged_df
        /\ merge_type' = merge_type
        /\ data_frames' = IF uploaded_files' = <<>> THEN data_frames
                          ELSE TablesOf(uploaded_files')

\* C1: when the chosen identifier column is absent from a loaded table,
\* validation fails and reports exactly the 1-based positions of the tables
\* lacking it; no duplicate resolution, no merge, no merged table stored.
C1_MissingIdentifier == []C1_Reported /\ [][C1_NothingStored]_vars

\* Scenario E after an earlier merge: table 2 lacks the column, the merged
\* table of the earlier merge is still the stored one.
C1_Witness ==
    /\ report.stage = "missing_pk"
    /\ report.missing_pk = <<2>>
    /\ merged_df # None

\* C2: whenever a merge engine is called, the identifier column has one and
\* the same dtype in all the tables handed to it.
C2_SameTypeAtMerge ==
    report.engine # "none" =>
        \A i, j \in DOMAIN report.engine_in :
            report.engine_in[i].dtype[widgets.primary_key]
              = report.engine_in[j].dtype[widgets.primary_key]

\* C3: a wide inner merge run through the pipeline yields as many rows as
\* there are identifier values common to all tables, and no more rows than
\* any table has after duplicate removal.
C3_InnerRowCount ==
    (report.stage = "merged" /\ report.engine = "wide" /\ widgets.join_type = "inner") =>
        LET pk == widgets.primary_key
            tabs == report.engine_in
            common == {v \in KeySet(tabs[1], pk) :
                         \A i \in DOMAIN tabs : v \in KeySet(tabs[i], pk)}
        IN  /\ Len(merged_df.rows) = Cardinality(common)
            /\ \A i \in DOMAIN tabs : Len(merged_df.rows) <= Len(tabs[i].rows)

\* C8: when a file of the upload fails to load, every loaded table is merged
\* under the wave number typed for its own file: its columns carry that
\* suffix (wide), its rows that Wave cell (long).
C8_OwnWaveLabel ==
    (Merged /\ Len(report.engine_in) < Len(wave_assignments)) =>
        LET pk == widgets.primary_key
            tabs == report.engine_in
            own(j) == ToString(wave_assignments[file_index[j]])
        IN  IF report.engine = "wide"
            THEN \A j \in DOMAIN tabs : \A c \in ColSet(tabs[j]) \ {pk} :
                    (c \o "_w" \o own(j)) \in ColSet(merged_df)
            ELSE \A r \in DOMAIN merged_df.rows :
                    \E j \in DOMAIN tabs :
                        /\ merged_df.rows[r]["Wave"] = Str("w" \o own(j))
                        /\ \E k \in DOMAIN tabs[j].rows :
                              \A c \in ColSet(tabs[j]) \ {"Wave"} :
                                  merged_df.rows[r][c] = tabs[j].rows[k][c]

\* C10: a long merge leaves the session's tables as they were handed to it,
\* and a wide merge has no column made from a Wave column and 1 + the loaded
\* tables' non-identifier columns.
C10_TablesUntouched ==
    /\ (Merged /\ report.engine = "long") => data_frames = report.engine_in
    /\ (Merged /\ report.engine = "wide") =>
          /\ \A i \in DOMAIN wave_assignments :
                ("Wave_w" \o ToString(wave_assignments[i])) \notin ColSet(merged_df)
          /\ Len(merged_df.cols) = 1 + Len(Flatten(
                [j \in DOMAIN file_index |-> Tail(files[file_index[j]].table.cols)]))

ValidationFailed(stage) == stage \in {"missing_pk", "inconsistent"}

\* C9 (states): no tables, no validation; a merge is reported only with a
\* merged table stored; a caught engine failure is reported as such.
C9_Stages ==
    /\ report.stage = "idle" <=> data_frames = <<>>
    /\ Merged => merged_df # None /\ merge_type = widgets.merge_type
    /\ report.stage = "merge_error" => report.engine # "none" /\ report.dedup

\* C9 (steps): a merge engine runs only from a validated session; a merged
\* table is stored only by a merge that succeeds; a failed validation and a
\* failed merge leave the loaded tables and the stored merged table alone.
C9_Steps ==
    /\ report'.engine # "none" => OptionsShown /\ uploaded_files' = uploaded_files
    /\ (merged_df' # merged_df \/ merge_type' # merge_type) =>
          report'.stage \in {"merged", "warning"}
    /\ ValidationFailed(report'.stage) =>
          /\ data_frames' # <<>>
          /\ data_frames' = IF uploaded_files' = <<>> THEN data_frames
                            ELSE TablesOf(uploaded_files')
    /\ report'.stage = "merge_error" =>
          /\ data_frames' = data_frames
          /\ file_names' = file_names
          /\ wave_assignments' = wave_assignments

\* C9 (retry): after a failed merge there is another identifier or another
\* merge type with which the next press of the button merges, the uploader
\* left as it is.
C9_Retry ==
    report.stage = "merge_error" =>
        \E pk \in ColSet(data_frames[1]), mt \in {Wide, Long} :
          /\ pk # widgets.primary_key \/ mt # widgets.merge_type
          /\ LET w == [widgets EXCEPT !.primary_key = pk, !.merge_type = mt,
                          !.join_type = IF mt = Wide THEN "inner" ELSE NoText]
                 waves == [i \in DOMAIN uploaded_files |-> wave_numbers[i]]
                 shown == Script(uploaded_files, w, FALSE, FALSE, FALSE)
                 pressed == Pipeline(AfterUpload(shown, uploaded_files, waves),
                                     shown.widgets, TRUE, FALSE, FALSE)
             IN  /\ shown.report.stage = "validated"
                 /\ pressed.report.stage \in {"merged", "warning"}

\* C9: the session goes from idle to loaded to validated to merged and stays
\* re-triable: a failed validation keeps the loaded tables and stores no
\* merged table; a failure inside a merge engine is caught and reported,
\* keeps the loaded tables and the merged table stored before, and can be
\* followed by a merge with another identifier or merge type that succeeds.
C9_Retriable == [](C9_Stages /\ C9_Retry) /\ [][C9_Steps]_vars

\* A merge fails after an earlier one succeeded: its table is still stored.
C9_Witness ==
    /\ report.stage = "merge_error"
    /\ merged_df # None
    /\ uploaded_files # <<>>

\* ------------------------------------------------------------------ claims on the functions

\* The positions of the first row of every key of df.
FirstRows(df, pk) ==
    {i \in DOMAIN df.rows : \A j \in DOMAIN df.rows : j < i => df.rows[j][pk] # df.rows[i][pk]}

WideCall == call.fn = "merge_datasets_wide"

\* The name the wide merge is to give column c of the table at position i.
Suffixed(c, i) == c \o "_w" \o ToString(call.wave_assignments[i])

ValueColumns(df) == SelectSeq(df.cols, LAMBDA c : c # call.primary_key)

WideNames ==
    {Suffixed(c, i) : i \in DOMAIN call.data_frames, c \in {"x", "y"}}
      \cap UNION {{Suffixed(c, i) : c \in Range(ValueColumns(call.data_frames[i]))} :
                    i \in DOMAIN call.data_frames}

WideCount ==
    1 + Len(Flatten([i \in DOMAIN call.data_frames |-> ValueColumns(call.data_frames[i])]))

\* C5: whatever the wave numbers, the wide merge has one
\* identifier column, a column c_w<wave> for every value column c of every
\* table, and 1 + the number of value columns in all.
C5_AnyLabels ==
    WideCall =>
        /\ ~IsError(call.result)
        /\ Cardinality({k \in DOMAIN call.result.cols :
                          call.result.cols[k] = call.primary_key}) = 1
        /\ WideNames \subseteq ColSet(call.result)
        /\ Len(call.result.cols) = WideCount

\* The cell of result row r in the k-th value column of the table at position
\* i: the result lists the first table's columns and then every later table's
\* value columns (the identifier is the first column of the tables here).
CellOf(r, i, k) ==
    LET before == Flatten([j \in 1..(i - 1) |-> ValueColumns(call.data_frames[j])])
    IN  r[call.result.cols[1 + Len(before) + k]]

\* C7: the wide merge folds the tables left to right: a left join keeps the
\* first table's identifier values, a right join the last table's, an outer
\* join all of them; each value once, with missing cells for the tables that
\* lack the value and, in a left or outer join, the cells of the tables that
\* have it.
C7_FoldOrder ==
    WideCall =>
        LET tabs == call.data_frames
            out == call.result
            pk == call.primary_key
            n == Len(tabs)
        IN  ~IsError(out) =>
              /\ call.join_type = "left" => KeySet(out, pk) = KeySet(tabs[1], pk)
              /\ call.join_type = "right" => KeySet(out, pk) = KeySet(tabs[n], pk)
              /\ call.join_type = "outer" =>
                    KeySet(out, pk) = UNION {KeySet(tabs[i], pk) : i \in 1..n}
              /\ call.join_type # "inner" =>
                    /\ Len(out.rows) = Cardinality(KeySet(out, pk))
                    /\ \A r \in DOMAIN out.rows : \A i \in 1..n :
                       \A k \in DOMAIN ValueColumns(tabs[i]) :
                          IF out.rows[r][pk] \notin KeySet(tabs[i], pk)
                          THEN CellOf(out.rows[r], i, k) = NaN
                          ELSE call.join_type \in {"left", "outer"} =>
                                 \E q \in DOMAIN tabs[i].rows :
                                    /\ tabs[i].rows[q][pk] = out.rows[r][pk]
                                    /\ CellOf(out.rows[r], i, k)
                                         = tabs[i].rows[q][ValueColumns(tabs[i])[k]]

\* A right join of three tables whose first and second table hold a value
\* the last one lacks, and the last one a value the first one lacks.
C7_Witness ==
    /\ WideCall
    /\ call.join_type = "right"
    /\ Len(call.data_frames) = 3
    /\ Num(1) \in KeySet(call.data_frames[1], "id") \cap KeySet(call.data_frames[2], "id")
    /\ Num(1) \notin KeySet(call.data_frames[3], "id")
    /\ Num(2) \in KeySet(call.data_frames[3], "id") \ KeySet(call.data_frames[1], "id")
    /\ KeySet(call.result, "id") = KeySet(call.data_frames[3], "id")

====
